---- MODULE Spec2Model ----
(***************************************************************************)
(* AIImageClassifierRNW, windows host glue.                                *)
(*                                                                         *)
(*   ReactPackageProvider::CreatePackage  (ReactPackageProvider.cpp 10-13) *)
(*   implementation::MainPage             (MainPage.h 7-10)                *)
(*                                                                         *)
(* The process is modelled as the framework driving the two entry points   *)
(* in any order and any number of times.  The React Native for Windows     *)
(* runtime (builder objects, AddAttributedModules) and the body of         *)
(* MainPage::MainPage() are not part of the two source files; they are     *)
(* modelled from the specification and say so where they are defined.      *)
(***************************************************************************)
EXTENDS Integers, Sequences, FiniteSets

\* Number of native modules linked into the binary.
MaxModules == 3
\* Number of well-formed package builder instances the framework can hand out.
MaxBuilders == 2
\* Number of CreatePackage invocations explored.
MaxCalls == 3
\* Number of MainPage instances explored.
MaxPages == 2

VARIABLES
    attributed,   \* modules of the binary that opted into attribute-based discovery
    registry,     \* per builder: the module entries added through it
    provider,     \* the ReactPackageProvider object's own state: builder references it holds
    lastCall,     \* record of the most recent CreatePackage invocation
    returned,     \* builders for which a CreatePackage invocation has returned
    nCalls,       \* CreatePackage invocations so far
    terminated,   \* std::terminate has been called; the process is gone
    pages         \* MainPage instances constructed

vars == <<attributed, registry, provider, lastCall, returned, nCalls, terminated, pages>>

Modules == 1 .. MaxModules

\* Builder handles a caller can pass.  0 is a handle the framework cannot
\* register through (an empty or rejecting IReactPackageBuilder).
Builders == 0 .. MaxBuilders

IsValidBuilder(b) == b \in 1 .. MaxBuilders

InvalidBuilders == {b \in Builders : ~IsValidBuilder(b)}

NoCall == [builder |-> -1, fwCalls |-> <<>>, fwThrew |-> FALSE, outcome |-> "none"]

Entries(useTurboModules) ==
    {[name |-> m, turbo |-> useTurboModules] : m \in attributed}

Names(entries) == {e.name : e \in entries}

\* The framework's bulk-registration routine, seen from its call site: it
\* either adds an entry per attributed module to the builder it was given and
\* returns, or it fails, which a void C++ routine can only do by throwing.
AddAttributedModules(reg, packageBuilder, useTurboModules) ==
    IF IsValidBuilder(packageBuilder)
    THEN [registry |-> [reg EXCEPT ![packageBuilder] = @ \cup Entries(useTurboModules)],
          threw |-> FALSE]
    ELSE [registry |-> reg, threw |-> TRUE]

FwCall(packageBuilder, useTurboModules) ==
    [routine |-> "AddAttributedModules", builder |-> packageBuilder,
     useTurboModules |-> useTurboModules]

\* The statements of a function body, run in order; a throw abandons the rest.
RECURSIVE RunCalls(_, _)
RunCalls(reg, calls) ==
    IF calls = <<>>
    THEN [registry |-> reg, threw |-> FALSE]
    ELSE LET r == AddAttributedModules(reg, Head(calls).builder,
                                       Head(calls).useTurboModules)
         IN  IF r.threw THEN r ELSE RunCalls(r.registry, Tail(calls))

NoexceptExit_Propagate(threw) == IF threw THEN "exception" ELSE "return"

\* How a call leaves a function declared noexcept with no handler in its body:
\* an exception that reaches the boundary calls std::terminate.
NoexceptExit(threw) == IF threw THEN "terminate" ELSE "return"

\* One invocation of a noexcept member function whose body makes the framework
\* calls `calls` and leaves the provider object in state `providerAfter`.
NoexceptBody(packageBuilder, calls, providerAfter) ==
    /\ ~terminated
    /\ nCalls < MaxCalls
    /\ LET r == RunCalls(registry, calls)
           exit == NoexceptExit(r.threw)
       IN  /\ registry' = r.registry
           /\ lastCall' = [builder |-> packageBuilder, fwCalls |-> calls,
                           fwThrew |-> r.threw, outcome |-> exit]
           /\ terminated' = (exit = "terminate")
           /\ returned' = IF exit = "return" THEN returned \cup {packageBuilder}
                          ELSE returned
    /\ provider' = providerAfter
    /\ nCalls' = nCalls + 1
    /\ UNCHANGED <<attributed, pages>>

\* Variants of CreatePackage that a slip in its one-line body would produce.
CreatePackage_EmptyHandle(packageBuilder) ==
    NoexceptBody(packageBuilder,
                 <<FwCall(CHOOSE b \in InvalidBuilders : TRUE, TRUE)>>, provider)

CreatePackage_NoCall(packageBuilder) ==
    NoexceptBody(packageBuilder, <<>>, provider)

CreatePackage_Twice(packageBuilder) ==
    NoexceptBody(packageBuilder,
                 <<FwCall(packageBuilder, TRUE), FwCall(packageBuilder, TRUE)>>, provider)

CreatePackage_Retain(packageBuilder) ==
    NoexceptBody(packageBuilder, <<FwCall(packageBuilder, TRUE)>>,
                 provider \cup {packageBuilder})

CreatePackage_Cached(packageBuilder) ==
    LET kept == IF provider = {} THEN packageBuilder ELSE CHOOSE b \in provider : TRUE
    IN  NoexceptBody(packageBuilder, <<FwCall(kept, TRUE)>>, {kept})

CreatePackage_Broadcast(packageBuilder) ==
    NoexceptBody(packageBuilder,
                 <<FwCall(packageBuilder, TRUE),
                   FwCall(CHOOSE b \in Builders : IsValidBuilder(b), TRUE)>>, provider)

CreatePackage_Once(packageBuilder) ==
    NoexceptBody(packageBuilder,
                 IF nCalls = 0 THEN <<FwCall(packageBuilder, TRUE)>> ELSE <<>>, provider)

\* void ReactPackageProvider::CreatePackage(IReactPackageBuilder const &) noexcept
\* { AddAttributedModules(packageBuilder, true); }
CreatePackage(packageBuilder) ==
    NoexceptBody(packageBuilder, <<FwCall(packageBuilder, TRUE)>>, provider)

ConstructMainPage_Registers ==
    /\ ~terminated
    /\ pages < MaxPages
    /\ pages' = pages + 1
    /\ registry' = [b \in Builders |-> IF IsValidBuilder(b)
                                       THEN registry[b] \cup Entries(FALSE)
                                       ELSE registry[b]]
    /\ UNCHANGED <<attributed, provider, lastCall, returned, nCalls, terminated>>

ConstructMainPage_NeedsPackage ==
    /\ ~terminated
    /\ pages < MaxPages
    /\ returned # {}
    /\ pages' = pages + 1
    /\ UNCHANGED <<attributed, registry, provider, lastCall, returned, nCalls, terminated>>

\* MainPage::MainPage(): declared in MainPage.h, defined outside the two files.
\* Construction takes no input and yields one more page instance.
ConstructMainPage ==
    /\ ~terminated
    /\ pages < MaxPages
    /\ pages' = pages + 1
    /\ UNCHANGED <<attributed, registry, provider, lastCall, returned, nCalls, terminated>>

Init ==
    /\ attributed \in SUBSET Modules
    /\ registry = [b \in Builders |-> {}]
    /\ provider = {}
    /\ lastCall = NoCall
    /\ returned = {}
    /\ nCalls = 0
    /\ terminated = FALSE
    /\ pages = 0

Next ==
    \/ \E b \in Builders : CreatePackage(b)
    \/ ConstructMainPage

Spec == Init /\ [][Next]_vars

Called == lastCall # NoCall

(***************************************************************************)
(* C1: for every valid builder and every set of attributed modules, the    *)
(* empty set included, CreatePackage returns normally: the invocation      *)
(* ends by returning, not by an exception and not by terminating.          *)
(***************************************************************************)
C1_ValidBuilderReturns ==
    (Called /\ IsValidBuilder(lastCall.builder))
        => (lastCall.outcome = "return" /\ ~lastCall.fwThrew /\ ~terminated)

C1_Witness ==
    /\ attributed = {}
    /\ IsValidBuilder(lastCall.builder)
    /\ lastCall.outcome = "return"

C3_RegistersExactlyAttributed ==
    \A b \in returned : Names(registry[b]) = attributed

C3_Witness ==
    /\ returned # {}
    /\ attributed # {}
    /\ attributed # Modules

(***************************************************************************)
(* C4: no CreatePackage call changes the provider's own state; after any   *)
(* sequence of calls it is what it was before the first.                   *)
(***************************************************************************)
C4_ProviderStateUnchanged == [][provider' = provider]_vars

C4_Witness ==
    /\ Cardinality(returned) >= 2
    /\ provider = {}

C7_BuilderNotRetained ==
    /\ \A b \in returned : b \notin provider
    /\ \A i \in 1 .. Len(lastCall.fwCalls) :
           lastCall.fwCalls[i].builder = lastCall.builder

C7_Witness ==
    /\ nCalls >= 2
    /\ Cardinality(returned) >= 2
    /\ lastCall.outcome = "return"

C9_OnlyPassedBuilderChanges ==
    [][\A b \in Builders :
          (registry'[b] # registry[b])
              => (nCalls' = nCalls + 1 /\ b = lastCall'.builder)]_vars

C9_Witness ==
    /\ Cardinality(returned) >= 2
    /\ attributed # {}
    /\ \A b \in returned : registry[b] # {}

(***************************************************************************)
(* C10: any two builders that started empty and were each passed to a      *)
(* CreatePackage call hold the same module entries, however many calls     *)
(* came before.                                                            *)
(***************************************************************************)
C10_SameEntriesForEveryBuilder ==
    \A b1 \in returned : \A b2 \in returned : registry[b1] = registry[b2]

C10_Witness ==
    /\ Cardinality(returned) >= 2
    /\ nCalls >= 3
    /\ attributed # {}

====
